---- MODULE Spec2Model ----
(***************************************************************************)
(* dana-web-client.py: a directory walk over dana/<project>/<series>/      *)
(* <build>/ that publishes series, builds and samples to a dashboard with  *)
(* three HTTP POST operations sharing one transport, post_to_dashboard.    *)
(*                                                                         *)
(* Conventions of the model                                                *)
(*   - a str the code parses (a build directory name) is a sequence of     *)
(*     one-character strings; every other str is a TLA+ string;            *)
(*   - a dict is a function from its keys (a TLA+ record);                 *)
(*   - Optional[str] is a sequence of length 0 (None) or 1;                *)
(*   - an f-string is the tuple of its parts;                              *)
(*   - stdout, the HTTP transport and the logger are one sequence, trace,  *)
(*     of events in the order the program produced them.                   *)
(***************************************************************************)
EXTENDS Integers, Sequences, FiniteSets, TLC

\* Bounds of the model: directories under dana/ (projects + series + builds),
\* build directories that deviate from a well-formed one, and calls a client
\* of the three publish operations makes.
MaxDirs == 5
MaxDeviations == 1
MaxCalls == 2

\* The UTC offset, in seconds, of the local timezone datetime.timestamp()
\* interprets a naive datetime in.
LocalUtcOffset == 0

VARIABLES
    tree,                \* the directory tree under dana/, in listing order
    pc,                  \* position of main() (or "api" for a direct client)
    pi, si, bi,          \* loop positions: project, series, build (1-based;
                         \* an inner loop's position is 1 until it starts)
    series_description,  \* main()'s local, once a configuration is loaded
    build_id,            \* main()'s local, once a directory name is parsed
    sample_value,        \* main()'s local, once the CSV is read
    error,               \* the exception that ended main(), or "none"
    trace,               \* print / post / log events, in program order
    calls                \* the publish operations a direct client has called

vars == <<tree, pc, pi, si, bi, series_description, build_id, sample_value,
          error, trace, calls>>

(***************************************************************************)
(* Characters and numbers                                                  *)
(***************************************************************************)
DigitChars == <<"0", "1", "2", "3", "4", "5", "6", "7", "8", "9">>

Digits == {DigitChars[i] : i \in 1..10}

DigitVal(c) == CHOOSE v \in 0..9 : DigitChars[v + 1] = c

IsDigit(c) == c \in Digits

InRange(c, lo, hi) == IsDigit(c) /\ DigitVal(c) >= lo /\ DigitVal(c) <= hi

RECURSIVE IntOf(_)
IntOf(w) ==
    IF w = <<>> THEN 0
    ELSE 10 * IntOf(SubSeq(w, 1, Len(w) - 1)) + DigitVal(w[Len(w)])

Pad2(n) == <<DigitChars[(n \div 10) + 1], DigitChars[(n % 10) + 1]>>

Pad4(n) == Pad2(n \div 100) \o Pad2(n % 100)

(***************************************************************************)
(* datetime.strptime(name, "%Y%m%d-%H%M%S") and datetime.timestamp()       *)
(***************************************************************************)
\* The regular expressions _strptime compiles for the directives.
MatchY(w) == Len(w) = 4 /\ \A i \in 1..4 : IsDigit(w[i])

Match_m(w) ==
    \/ Len(w) = 2 /\ w[1] = "1" /\ InRange(w[2], 0, 2)
    \/ Len(w) = 2 /\ w[1] = "0" /\ InRange(w[2], 1, 9)
    \/ Len(w) = 1 /\ InRange(w[1], 1, 9)

Match_d(w) ==
    \/ Len(w) = 2 /\ w[1] = "3" /\ InRange(w[2], 0, 1)
    \/ Len(w) = 2 /\ InRange(w[1], 1, 2) /\ IsDigit(w[2])
    \/ Len(w) = 2 /\ w[1] = "0" /\ InRange(w[2], 1, 9)
    \/ Len(w) = 1 /\ InRange(w[1], 1, 9)
    \/ Len(w) = 2 /\ w[1] = " " /\ InRange(w[2], 1, 9)

Match_H(w) ==
    \/ Len(w) = 2 /\ w[1] = "2" /\ InRange(w[2], 0, 3)
    \/ Len(w) = 2 /\ InRange(w[1], 0, 1) /\ IsDigit(w[2])
    \/ Len(w) = 1 /\ IsDigit(w[1])

Match_M(w) ==
    \/ Len(w) = 2 /\ InRange(w[1], 0, 5) /\ IsDigit(w[2])
    \/ Len(w) = 1 /\ IsDigit(w[1])

Match_S(w) ==
    \/ Len(w) = 2 /\ w[1] = "6" /\ InRange(w[2], 0, 1)
    \/ Len(w) = 2 /\ InRange(w[1], 0, 5) /\ IsDigit(w[2])
    \/ Len(w) = 1 /\ IsDigit(w[1])

\* How many characters each of %m %d %H %M %S takes: one or two.
Splits == [{"m", "d", "H", "M", "S"} -> {1, 2}]

\* The len characters from position from, or nothing when name ends before.
Field(name, from, len) ==
    IF from + len - 1 <= Len(name) THEN SubSeq(name, from, from + len - 1)
    ELSE <<>>

\* The groups the format's regular expression finds with the widths sp;
\* end is the last character matched.
Groups(name, sp) ==
    LET pm == 5
        pd == pm + sp.m
        dash == pd + sp.d
        pH == dash + 1
        pM == pH + sp.H
        pS == pM + sp.M
    IN  [Y |-> Field(name, 1, 4), m |-> Field(name, pm, sp.m),
         d |-> Field(name, pd, sp.d), dash |-> dash,
         H |-> Field(name, pH, sp.H), M |-> Field(name, pM, sp.M),
         S |-> Field(name, pS, sp.S), end |-> pS + sp.S - 1]

RegexMatches(name, sp) ==
    LET g == Groups(name, sp)
    IN  /\ g.end <= Len(name)
        /\ MatchY(g.Y) /\ Match_m(g.m) /\ Match_d(g.d)
        /\ g.dash <= Len(name) /\ name[g.dash] = "-"
        /\ Match_H(g.H) /\ Match_M(g.M) /\ Match_S(g.S)

\* The regular expression tries a directive's two-character alternatives
\* before its one-character one, leftmost directive first.
Rank(sp) ==
    16 * (2 - sp.m) + 8 * (2 - sp.d) + 4 * (2 - sp.H) + 2 * (2 - sp.M)
        + (2 - sp.S)

IsLeap(y) == (y % 4 = 0 /\ y % 100 # 0) \/ y % 400 = 0

DaysInMonth(y, m) ==
    IF m = 2 THEN (IF IsLeap(y) THEN 29 ELSE 28)
    ELSE IF m \in {4, 6, 9, 11} THEN 30 ELSE 31

\* The arguments datetime's constructor accepts.
ValidDateTime(dt) ==
    /\ dt.Y >= 1
    /\ dt.m >= 1 /\ dt.m <= 12
    /\ dt.d >= 1 /\ dt.d <= DaysInMonth(dt.Y, dt.m)
    /\ dt.H <= 23 /\ dt.M <= 59 /\ dt.S <= 59

\* strptime: [ok |-> TRUE, dt |-> the datetime] or [ok |-> FALSE] (ValueError):
\* no match, unconverted data after the match, or a field out of range.
strptime(name) ==
    LET found == {sp \in Splits : RegexMatches(name, sp)}
    IN  IF found = {} THEN [ok |-> FALSE]
        ELSE
            LET sp == CHOOSE x \in found : \A y \in found : Rank(x) <= Rank(y)
                g == Groups(name, sp)
                dt == [Y |-> IntOf(g.Y),
                       m |-> IntOf(IF g.m[1] = " " THEN Tail(g.m) ELSE g.m),
                       d |-> IntOf(IF g.d[1] = " " THEN Tail(g.d) ELSE g.d),
                       H |-> IntOf(g.H), M |-> IntOf(g.M), S |-> IntOf(g.S)]
            IN  IF g.end # Len(name) \/ ~ValidDateTime(dt) THEN [ok |-> FALSE]
                ELSE [ok |-> TRUE, dt |-> dt]

\* Days from 1970-01-01 to the civil date y-m-d.
DaysFromCivil(y, m, d) ==
    LET yy == IF m <= 2 THEN y - 1 ELSE y
        era == yy \div 400
        yoe == yy - era * 400
        mp == IF m > 2 THEN m - 3 ELSE m + 9
        doy == (153 * mp + 2) \div 5 + d - 1
        doe == yoe * 365 + yoe \div 4 - yoe \div 100 + doy
    IN  era * 146097 + doe - 719468

\* int(datetime.timestamp()) of a naive datetime: seconds since the epoch.
timestamp(dt) ==
    DaysFromCivil(dt.Y, dt.m, dt.d) * 86400 + dt.H * 3600 + dt.M * 60 + dt.S
        - LocalUtcOffset

\* datetime.strftime(dt, "%Y%m%d-%H%M%S"): every field zero-padded.
strftime(dt) ==
    Pad4(dt.Y) \o Pad2(dt.m) \o Pad2(dt.d) \o <<"-">> \o Pad2(dt.H)
        \o Pad2(dt.M) \o Pad2(dt.S)

(***************************************************************************)
(* The directory tree under dana/                                          *)
(***************************************************************************)
\* A file is a sequence: empty when the file does not exist, else <<content>>.
NoFile == <<>>

LatencyColumn == "Model latency mean (s)"

\* A parsed hydra_config.yaml: its top-level keys in document order.
HydraConfig == <<<<"experiment_name", "default">>, <<"model", "bert">>>>

\* An inference_results.csv: its header and its rows; a number is fixed-point,
\* in millionths (42000 is 0.042).
GoodCsv == [header |-> <<LatencyColumn>>, rows |-> <<<<42000>>>>]

EmptyCsv == [header |-> <<>>, rows |-> <<>>]

HeaderOnlyCsv == [header |-> <<LatencyColumn>>, rows |-> <<>>]

OtherColumnCsv == [header |-> <<"Model throughput (s^-1)">>, rows |-> <<<<42000>>>>]

\* The ways one build directory deviates from a well-formed one, and the
\* aspect of the directory each one changes.
DeviationKinds ==
    {"bad_name", "unpadded_name", "no_hydra", "csv_missing", "csv_empty",
     "csv_no_rows", "csv_no_column"}

Aspect(kind) ==
    CASE kind \in {"bad_name", "unpadded_name"} -> "name"
      [] kind = "no_hydra" -> "hydra"
      [] OTHER -> "csv"

\* The moment the j-th build of a series was made.
BuildMoment(j) == [Y |-> 2024, m |-> 1, d |-> 14 + j, H |-> 9, M |-> 30, S |-> 0]

\* "2024-01-15": a date with dashes and no time.
BadName(dt) == Pad4(dt.Y) \o <<"-">> \o Pad2(dt.m) \o <<"-">> \o Pad2(dt.d)

\* "2024115-93000": the pattern's fields, month and hour not zero-padded.
UnpaddedName(dt) ==
    Pad4(dt.Y) \o Tail(Pad2(dt.m)) \o Pad2(dt.d) \o <<"-">> \o Tail(Pad2(dt.H))
        \o Pad2(dt.M) \o Pad2(dt.S)

\* The j-th build directory of a series, with the deviations kinds.
BuildDir(j, kinds) ==
    [name |-> IF "bad_name" \in kinds THEN BadName(BuildMoment(j))
              ELSE IF "unpadded_name" \in kinds THEN UnpaddedName(BuildMoment(j))
              ELSE strftime(BuildMoment(j)),
     hydra |-> IF "no_hydra" \in kinds THEN NoFile ELSE <<HydraConfig>>,
     csv |-> IF "csv_missing" \in kinds THEN NoFile
             ELSE IF "csv_empty" \in kinds THEN <<EmptyCsv>>
             ELSE IF "csv_no_rows" \in kinds THEN <<HeaderOnlyCsv>>
             ELSE IF "csv_no_column" \in kinds THEN <<OtherColumnCsv>>
             ELSE <<GoodCsv>>]

RECURSIVE SumSeq(_)
SumSeq(q) == IF q = <<>> THEN 0 ELSE Head(q) + SumSeq(Tail(q))

\* A project's shape: the number of build directories of each of its series.
\* ProjectShapes(n): the shapes of at most n directories.
RECURSIVE ProjectShapes(_)
ProjectShapes(n) ==
    IF n <= 0 THEN {<<>>}
    ELSE {<<>>} \cup
    UNION {{<<b>> \o rest : rest \in ProjectShapes(n - 1 - b)} : b \in 0..(n - 1)}

ShapeSize(p) == Len(p) + SumSeq(p)

\* TreeShapes(n): the shapes of dana/ with at most n directories below it.
RECURSIVE TreeShapes(_)
TreeShapes(n) ==
    IF n <= 0 THEN {<<>>}
    ELSE {<<>>} \cup
    UNION {{<<p>> \o rest : rest \in TreeShapes(n - 1 - ShapeSize(p))} :
           p \in ProjectShapes(n - 1)}

Positions(shape) ==
    {<<p, s, b>> \in (1..MaxDirs) \X (1..MaxDirs) \X (1..MaxDirs) :
        p <= Len(shape) /\ s <= Len(shape[p]) /\ b <= shape[p][s]}

RECURSIVE SubsetsUpTo(_, _)
SubsetsUpTo(S, k) ==
    IF k = 0 THEN {{}}
    ELSE LET smaller == SubsetsUpTo(S, k - 1)
         IN  smaller \cup {T \cup {x} : T \in smaller, x \in S}

\* At most MaxDeviations deviations, no two of one aspect of one directory.
DeviationSets(shape) ==
    {D \in SubsetsUpTo(Positions(shape) \X DeviationKinds, MaxDeviations) :
        \A x, y \in D : (x[1] = y[1] /\ Aspect(x[2]) = Aspect(y[2])) => x = y}

\* Directory names are taken verbatim as ids; listing order is the order of
\* the sequences.
ProjectName(p) == <<"p", p>>

SeriesName(s) == <<"s", s>>

BuildTree(shape, D) ==
    [p \in 1..Len(shape) |->
        [name |-> ProjectName(p),
         series |->
            [s \in 1..Len(shape[p]) |->
                [name |-> SeriesName(s),
                 builds |->
                    [b \in 1..shape[p][s] |->
                        BuildDir(b, {k \in DeviationKinds :
                                        <<<<p, s, b>>, k>> \in D})]]]]]

Trees ==
    UNION {{BuildTree(shape, D) : D \in DeviationSets(shape)} :
           shape \in TreeShapes(MaxDirs)}

(***************************************************************************)
(* The dashboard publisher                                                 *)
(***************************************************************************)
\* The status codes the dashboard answers with.
StatusCodes == {200, 500}

\* json.dumps(payload): the text of the JSON object.
dumps(payload) == [json |-> payload]

PrintEvent(data) == [op |-> "print", text |-> <<"API request payload: ", data>>]

PostEvent(url, data, bearer_token) ==
    [op |-> "post", url |-> url, data |-> data,
     headers |-> [ContentType |-> "application/json",
                  Authorization |-> <<"Bearer ", bearer_token>>]]

LogEvent(code) == [op |-> "log", text |-> <<"API response code: ", code>>]

\* Variant: dry_run returns early only when verbose is not set.
post_to_dashboard_sends_when_verbose(tr, dashboard_url, bearer_token, payload, dry_run, verbose, status) ==
    LET data == dumps(payload)
        printed == IF dry_run \/ verbose THEN Append(tr, PrintEvent(data)) ELSE tr
    IN  IF dry_run /\ ~verbose THEN printed
        ELSE printed \o <<PostEvent(dashboard_url, data, bearer_token), LogEvent(status)>>

\* Variant: the payload is printed after the request is sent.
post_to_dashboard_prints_last(tr, dashboard_url, bearer_token, payload, dry_run, verbose, status) ==
    LET data == dumps(payload)
        sent == IF dry_run THEN tr
                ELSE tr \o <<PostEvent(dashboard_url, data, bearer_token), LogEvent(status)>>
    IN  IF dry_run \/ verbose THEN Append(sent, PrintEvent(data)) ELSE sent

\* Variant: a request answered with a non-success status is sent again.
post_to_dashboard_retries(tr, dashboard_url, bearer_token, payload, dry_run, verbose, status) ==
    LET data == dumps(payload)
        printed == IF dry_run \/ verbose THEN Append(tr, PrintEvent(data)) ELSE tr
        once == <<PostEvent(dashboard_url, data, bearer_token), LogEvent(status)>>
    IN  IF dry_run THEN printed
        ELSE IF status = 200 THEN printed \o once
        ELSE printed \o once \o once

\* post_to_dashboard: the events it adds to tr. status is the status code
\* of the response requests.post returns, when the request is sent.
post_to_dashboard(tr, dashboard_url, bearer_token, payload, dry_run, verbose, status) ==
    LET data == dumps(payload)
        printed == IF dry_run \/ verbose THEN Append(tr, PrintEvent(data)) ELSE tr
    IN  IF dry_run THEN printed
        ELSE printed \o <<PostEvent(dashboard_url, data, bearer_token), LogEvent(status)>>

\* The payload add_new_optimum_build sends.
build_payload(a) ==
    [projectId |-> a.project_id,
     build |-> [buildId |-> a.build_id,
                infos |-> [hash |-> "commit_hash",
                           abbrevHash |-> "commit_abbrev_hash",
                           authorName |-> "ilyas",
                           authorEmail |-> "ilyas@gmail.com",
                           subject |-> "commit_subject",
                           url |-> "commit_url"]],
     override |-> a.override]

\* Variant: the description is always put in the payload, None as null.
series_payload_with_null(a) ==
    [projectId |-> a.project_id,
     serieId |-> a.series_id,
     analyse |-> [benchmark |-> [range |-> a.average_range,
                                 required |-> a.average_min_count,
                                 trend |-> a.better_criterion]],
     override |-> a.override,
     description |-> IF a.series_description # <<>> THEN a.series_description[1]
                     ELSE "null"]

\* The payload add_new_optimum_series sends.
series_payload(a) ==
    LET payload ==
            [projectId |-> a.project_id,
             serieId |-> a.series_id,
             analyse |-> [benchmark |-> [range |-> a.average_range,
                                         required |-> a.average_min_count,
                                         trend |-> a.better_criterion]],
             override |-> a.override]
    IN  IF a.series_description # <<>>
        THEN payload @@ ("description" :> a.series_description[1])
        ELSE payload

\* The payload add_new_sample sends.
sample_payload(a) ==
    [projectId |-> a.project_id,
     serieId |-> a.series_id,
     sample |-> [buildId |-> a.build_id, value |-> a.sample_value],
     override |-> a.override]

\* The bodies of the three operations, on their bound arguments a.
add_new_optimum_build(a, tr, status) ==
    post_to_dashboard(tr, <<a.dashboard_url, "/apis/addBuild">>, a.bearer_token,
                      build_payload(a), a.dry_run, a.verbose, status)

add_new_optimum_series(a, tr, status) ==
    post_to_dashboard(tr, <<a.dashboard_url, "/apis/addSerie">>, a.bearer_token,
                      series_payload(a), a.dry_run, a.verbose, status)

add_new_sample(a, tr, status) ==
    post_to_dashboard(tr, <<a.dashboard_url, "/apis/addSample">>, a.bearer_token,
                      sample_payload(a), a.dry_run, a.verbose, status)

\* The signatures: the parameters without a default, and the defaults.
Required ==
    [add_new_optimum_build |->
        {"project_id", "build_id", "dashboard_url", "bearer_token"},
     add_new_optimum_series |->
        {"project_id", "series_id", "dashboard_url", "bearer_token"},
     add_new_sample |->
        {"project_id", "series_id", "build_id", "sample_value", "dashboard_url",
         "bearer_token"}]

Defaults ==
    [add_new_optimum_build |->
        [override |-> FALSE, dry_run |-> FALSE, verbose |-> FALSE],
     add_new_optimum_series |->
        [series_description |-> <<>>, override |-> FALSE, dry_run |-> FALSE,
         verbose |-> FALSE, average_range |-> 5, average_min_count |-> 3,
         better_criterion |-> "lower"],
     add_new_sample |->
        [override |-> FALSE, dry_run |-> FALSE, verbose |-> FALSE]]

Parameters(fn) == Required[fn] \cup DOMAIN Defaults[fn]

\* Variant: the operations take **kwargs, so an unexpected keyword is ignored.
Binds_ignoring_unexpected(fn, kwargs) == Required[fn] \subseteq DOMAIN kwargs

\* A call fn(**kwargs): Python binds the keyword arguments to the parameters
\* and raises TypeError, before the body runs, for an unexpected keyword or
\* a missing required one.
Binds(fn, kwargs) ==
    /\ DOMAIN kwargs \subseteq Parameters(fn)
    /\ Required[fn] \subseteq DOMAIN kwargs

\* The call's result: the trace after it, or TypeError and the trace as it was.
Call(fn, kwargs, tr, status) ==
    IF ~Binds(fn, kwargs) THEN [raised |-> "TypeError", trace |-> tr]
    ELSE
        LET a == kwargs @@ Defaults[fn]
        IN  [raised |-> "none",
             trace |-> CASE fn = "add_new_optimum_build" ->
                                add_new_optimum_build(a, tr, status)
                         [] fn = "add_new_optimum_series" ->
                                add_new_optimum_series(a, tr, status)
                         [] fn = "add_new_sample" ->
                                add_new_sample(a, tr, status)]

(***************************************************************************)
(* main(): the scan pass                                                   *)
(***************************************************************************)
DASHBOARD_URL == "http://localhost:7000"

\* open("token.txt").read().strip(), read before the pass begins.
BEARER_TOKEN == "token"

OVERRIDE == TRUE

DRY_RUN == FALSE

VERBOSE == FALSE

\* OmegaConf.load: the document's keys and values, in document order.
load(content) == content

\* OmegaConf.to_yaml: one "key: value" line per key.
to_yaml(config) == [i \in DOMAIN config |-> <<config[i][1], ": ", config[i][2]>>]

\* series_folder.glob("*/hydra_config.yaml"): the matches, in listing order.
glob(series) ==
    LET with == SelectSeq(series.builds, LAMBDA b : b.hydra # NoFile)
    IN  [i \in DOMAIN with |-> with[i].hydra[1]]

\* pd.read_csv(path).to_dict("records"): the rows as dicts, or the exception.
read_csv(file) ==
    IF file = NoFile THEN [raised |-> "FileNotFoundError"]
    ELSE IF file[1].header = <<>> THEN [raised |-> "EmptyDataError"]
    ELSE [raised |-> "none",
          records |-> [r \in DOMAIN file[1].rows |->
                          [c \in {file[1].header[i] : i \in DOMAIN file[1].header} |->
                              LET i == CHOOSE i \in DOMAIN file[1].header :
                                           file[1].header[i] = c
                              IN  file[1].rows[r][i]]]]

\* An uncaught exception ends main().
Raise(s, exception) == [s EXCEPT !.pc = "failed", !.error = exception]

Project(s) == tree[s.pi]

Series(s) == tree[s.pi].series[s.si]

Build(s) == tree[s.pi].series[s.si].builds[s.bi]

\* for project_folder in Path("dana").iterdir()
NextProject(s) ==
    IF s.pi <= Len(tree) THEN [s EXCEPT !.pc = "next_series", !.si = 1, !.bi = 1]
    ELSE [s EXCEPT !.pc = "done"]

\* for series_foler in project_folder.iterdir()
NextSeries(s) ==
    IF s.si <= Len(Project(s).series) THEN [s EXCEPT !.pc = "load_config"]
    ELSE [s EXCEPT !.pc = "next_project", !.pi = s.pi + 1, !.si = 1, !.bi = 1]

\* Variant: a series without a configuration is published without description.
LoadConfig_without_description(s) ==
    LET matches == glob(Series(s))
    IN  [s EXCEPT !.series_description =
                      IF matches = <<>> THEN <<>> ELSE <<to_yaml(load(matches[1]))>>,
                  !.pc = "publish_series"]

\* config = OmegaConf.load(list(glob(...))[0]); to_yaml(config)
LoadConfig(s) ==
    LET matches == glob(Series(s))
    IN  IF matches = <<>> THEN Raise(s, "IndexError")
        ELSE [s EXCEPT !.series_description = <<to_yaml(load(matches[1]))>>,
                       !.pc = "publish_series"]

\* add_new_optimum_series(...), then the loop over the builds begins
PublishSeries(s, status) ==
    LET r == Call("add_new_optimum_series",
                  [project_id |-> Project(s).name,
                   series_id |-> Series(s).name,
                   dashboard_url |-> DASHBOARD_URL,
                   bearer_token |-> BEARER_TOKEN,
                   series_description |-> s.series_description,
                   override |-> OVERRIDE,
                   dry_run |-> DRY_RUN,
                   verbose |-> VERBOSE],
                  s.trace, status)
    IN  IF r.raised # "none" THEN Raise(s, r.raised)
        ELSE [s EXCEPT !.trace = r.trace, !.pc = "next_build", !.bi = 1]

\* for build_folder in series_foler.iterdir()
NextBuild(s) ==
    IF s.bi <= Len(Series(s).builds) THEN [s EXCEPT !.pc = "parse_build"]
    ELSE [s EXCEPT !.pc = "next_series", !.si = s.si + 1, !.bi = 1]

\* Variant: a directory whose name is rejected is skipped.
ParseBuild_skipping(s) ==
    LET parsed == strptime(Build(s).name)
    IN  IF ~parsed.ok THEN [s EXCEPT !.pc = "next_build", !.bi = s.bi + 1]
        ELSE [s EXCEPT !.build_id = <<timestamp(parsed.dt)>>,
                       !.pc = "publish_build"]

\* build_id = int(datetime.strptime(build_folder.name, ...).timestamp())
ParseBuild(s) ==
    LET parsed == strptime(Build(s).name)
    IN  IF ~parsed.ok THEN Raise(s, "ValueError")
        ELSE [s EXCEPT !.build_id = <<timestamp(parsed.dt)>>,
                       !.pc = "publish_build"]

\* add_new_optimum_build(...): the call passes series_id, which is not among
\* the operation's parameters
PublishBuild(s, status) ==
    LET r == Call("add_new_optimum_build",
                  [project_id |-> Project(s).name,
                   build_id |-> s.build_id[1],
                   series_id |-> Series(s).name,
                   dashboard_url |-> DASHBOARD_URL,
                   bearer_token |-> BEARER_TOKEN,
                   override |-> OVERRIDE,
                   dry_run |-> DRY_RUN,
                   verbose |-> VERBOSE],
                  s.trace, status)
    IN  IF r.raised # "none" THEN Raise(s, r.raised)
        ELSE [s EXCEPT !.trace = r.trace, !.pc = "read_csv"]

\* inference_results = pd.read_csv(...).to_dict("records")[0];
\* sample_value = inference_results["Model latency mean (s)"] * 1000
ReadCsv(s) ==
    LET r == read_csv(Build(s).csv)
    IN  IF r.raised # "none" THEN Raise(s, r.raised)
        ELSE IF r.records = <<>> THEN Raise(s, "IndexError")
        ELSE IF LatencyColumn \notin DOMAIN r.records[1] THEN Raise(s, "KeyError")
        ELSE [s EXCEPT !.sample_value = <<r.records[1][LatencyColumn] * 1000>>,
                       !.pc = "publish_sample"]

\* add_new_sample(...), then the next build
PublishSample(s, status) ==
    LET r == Call("add_new_sample",
                  [project_id |-> Project(s).name,
                   series_id |-> Series(s).name,
                   build_id |-> s.build_id[1],
                   sample_value |-> s.sample_value[1],
                   dashboard_url |-> DASHBOARD_URL,
                   bearer_token |-> BEARER_TOKEN,
                   override |-> OVERRIDE,
                   dry_run |-> DRY_RUN,
                   verbose |-> VERBOSE],
                  s.trace, status)
    IN  IF r.raised # "none" THEN Raise(s, r.raised)
        ELSE [s EXCEPT !.trace = r.trace, !.pc = "next_build", !.bi = s.bi + 1]

ScanPositions == {"next_project", "next_series", "load_config", "next_build",
                  "parse_build", "read_csv"}

PublishPositions == {"publish_series", "publish_build", "publish_sample"}

\* One step of main() from s; status is the dashboard's answer if the step
\* sends a request.
MainStep(s, status) ==
    CASE s.pc = "next_project" -> NextProject(s)
      [] s.pc = "next_series" -> NextSeries(s)
      [] s.pc = "load_config" -> LoadConfig(s)
      [] s.pc = "publish_series" -> PublishSeries(s, status)
      [] s.pc = "next_build" -> NextBuild(s)
      [] s.pc = "parse_build" -> ParseBuild(s)
      [] s.pc = "publish_build" -> PublishBuild(s, status)
      [] s.pc = "read_csv" -> ReadCsv(s)
      [] s.pc = "publish_sample" -> PublishSample(s, status)

\* main()'s state, as the record the steps work on.
State ==
    [pc |-> pc, pi |-> pi, si |-> si, bi |-> bi,
     series_description |-> series_description, build_id |-> build_id,
     sample_value |-> sample_value, error |-> error, trace |-> trace]

Become(s) ==
    /\ pc' = s.pc /\ pi' = s.pi /\ si' = s.si /\ bi' = s.bi
    /\ series_description' = s.series_description
    /\ build_id' = s.build_id
    /\ sample_value' = s.sample_value
    /\ error' = s.error
    /\ trace' = s.trace

StartOfMain ==
    [pc |-> "next_project", pi |-> 1, si |-> 1, bi |-> 1,
     series_description |-> <<>>, build_id |-> <<>>, sample_value |-> <<>>,
     error |-> "none", trace |-> <<>>]

Init ==
    /\ tree \in Trees
    /\ pc = StartOfMain.pc
    /\ pi = StartOfMain.pi /\ si = StartOfMain.si /\ bi = StartOfMain.bi
    /\ series_description = StartOfMain.series_description
    /\ build_id = StartOfMain.build_id
    /\ sample_value = StartOfMain.sample_value
    /\ error = StartOfMain.error
    /\ trace = StartOfMain.trace
    /\ calls = <<>>

\* The scanner's steps: the directory walk, the configuration, the directory
\* name, the CSV.
Scan ==
    /\ pc \in ScanPositions
    /\ Become(MainStep(State, 200))
    /\ UNCHANGED <<tree, calls>>

\* The publisher's steps: one publish call, answered with any status.
Publish ==
    /\ pc \in PublishPositions
    /\ \E status \in StatusCodes : Become(MainStep(State, status))
    /\ UNCHANGED <<tree, calls>>

Next == Scan \/ Publish

Spec == Init /\ [][Next]_vars

(***************************************************************************)
(* A client calling the three publish operations directly                  *)
(***************************************************************************)
\* No keyword argument: the parameter takes its default.
Omitted == [k \in {} |-> FALSE]

FlagArguments == {Omitted} \cup {[dry_run |-> d, verbose |-> v] : d, v \in BOOLEAN}

OverrideArguments == {Omitted, [override |-> TRUE]}

DescriptionArguments ==
    {Omitted, [series_description |-> <<>>], [series_description |-> <<"d1">>]}

SeriesArguments ==
    {[project_id |-> ProjectName(1), series_id |-> SeriesName(1),
      dashboard_url |-> DASHBOARD_URL, bearer_token |-> BEARER_TOKEN]
        @@ d @@ o @@ f :
     d \in DescriptionArguments, o \in OverrideArguments, f \in FlagArguments}

BuildArguments ==
    {[project_id |-> ProjectName(1), build_id |-> timestamp(BuildMoment(1)),
      dashboard_url |-> DASHBOARD_URL, bearer_token |-> BEARER_TOKEN]
        @@ o @@ f :
     o \in OverrideArguments, f \in FlagArguments}

SampleArguments ==
    {[project_id |-> ProjectName(1), series_id |-> SeriesName(1),
      build_id |-> timestamp(BuildMoment(1)), sample_value |-> 42,
      dashboard_url |-> DASHBOARD_URL, bearer_token |-> BEARER_TOKEN]
        @@ o @@ f :
     o \in OverrideArguments, f \in FlagArguments}

\* What calls records of a call: the call, what it raised and the events of
\* trace it produced (first..last).
CallRecord(fn, kwargs, r) ==
    [fn |-> fn, kwargs |-> kwargs, raised |-> r.raised,
     first |-> Len(trace) + 1, last |-> Len(r.trace)]

ClientSeries ==
    /\ pc = "client"
    /\ Len(calls) < MaxCalls
    /\ \E kwargs \in SeriesArguments, status \in StatusCodes :
        LET r == Call("add_new_optimum_series", kwargs, trace, status)
        IN  /\ trace' = r.trace
            /\ calls' = Append(calls, CallRecord("add_new_optimum_series", kwargs, r))
    /\ UNCHANGED <<tree, pc, pi, si, bi, series_description, build_id,
                   sample_value, error>>

ClientBuild ==
    /\ pc = "client"
    /\ Len(calls) < MaxCalls
    /\ \E kwargs \in BuildArguments, status \in StatusCodes :
        LET r == Call("add_new_optimum_build", kwargs, trace, status)
        IN  /\ trace' = r.trace
            /\ calls' = Append(calls, CallRecord("add_new_optimum_build", kwargs, r))
    /\ UNCHANGED <<tree, pc, pi, si, bi, series_description, build_id,
                   sample_value, error>>

ClientSample ==
    /\ pc = "client"
    /\ Len(calls) < MaxCalls
    /\ \E kwargs \in SampleArguments, status \in StatusCodes :
        LET r == Call("add_new_sample", kwargs, trace, status)
        IN  /\ trace' = r.trace
            /\ calls' = Append(calls, CallRecord("add_new_sample", kwargs, r))
    /\ UNCHANGED <<tree, pc, pi, si, bi, series_description, build_id,
                   sample_value, error>>

InitClient ==
    /\ tree = <<>>
    /\ pc = "client"
    /\ pi = 1 /\ si = 1 /\ bi = 1
    /\ series_description = <<>>
    /\ build_id = <<>>
    /\ sample_value = <<>>
    /\ error = "none"
    /\ trace = <<>>
    /\ calls = <<>>

NextClient == ClientSeries \/ ClientBuild \/ ClientSample

SpecClient == InitClient /\ [][NextClient]_vars

(***************************************************************************)
(* Properties of the pass and of the publish operations                    *)
(***************************************************************************)
Finished == pc \in {"done", "failed"}

Events(tr, op) == SelectSeq(tr, LAMBDA e : e.op = op)

\* The requests sent, in order.
Posts(tr) == Events(tr, "post")

Endpoint(e) == e.url[2]

Payload(e) == e.data.json

\* The identity of the entity a request creates.
PostKey(e) ==
    CASE Endpoint(e) = "/apis/addSerie" ->
            <<"series", Payload(e).projectId, Payload(e).serieId>>
      [] Endpoint(e) = "/apis/addBuild" ->
            <<"build", Payload(e).projectId, Payload(e).build.buildId>>
      [] Endpoint(e) = "/apis/addSample" ->
            <<"sample", Payload(e).projectId, Payload(e).serieId,
              Payload(e).sample.buildId>>

PostKeys(tr) == [i \in DOMAIN Posts(tr) |-> PostKey(Posts(tr)[i])]

IsPrefix(a, b) == Len(a) <= Len(b) /\ SubSeq(b, 1, Len(a)) = a

RECURSIVE Concat(_)
Concat(seqs) == IF seqs = <<>> THEN <<>> ELSE Head(seqs) \o Concat(Tail(seqs))

GoodCsvFile(file) ==
    /\ file # NoFile
    /\ file[1].rows # <<>>
    /\ \E i \in DOMAIN file[1].header : file[1].header[i] = LatencyColumn

BadCsvFile(file) == ~GoodCsvFile(file)

\* The shape YYYYMMDD-HHMMSS: eight digits, a dash, six digits.
NamedAsPattern(name) ==
    /\ Len(name) = 15
    /\ name[9] = "-"
    /\ \A i \in (1..15) \ {9} : IsDigit(name[i])

\* Every series has a configuration, every build directory is named
\* YYYYMMDD-HHMMSS for a moment that exists and has a CSV with the latency
\* column.
ValidTree ==
    \A p \in DOMAIN tree : \A s \in DOMAIN tree[p].series :
        /\ glob(tree[p].series[s]) # <<>>
        /\ \A b \in DOMAIN tree[p].series[s].builds :
            /\ NamedAsPattern(tree[p].series[s].builds[b].name)
            /\ strptime(tree[p].series[s].builds[b].name).ok
            /\ GoodCsvFile(tree[p].series[s].builds[b].csv)

BuildIdOf(p, s, b) == timestamp(strptime(tree[p].series[s].builds[b].name).dt)

\* The requests of a pass over a valid tree, as the control flow states it.
ExpectedOfBuild(p, s, b) ==
    <<<<"build", tree[p].name, BuildIdOf(p, s, b)>>,
      <<"sample", tree[p].name, tree[p].series[s].name, BuildIdOf(p, s, b)>>>>

ExpectedOfSeries(p, s) ==
    <<<<"series", tree[p].name, tree[p].series[s].name>>>>
        \o Concat([b \in DOMAIN tree[p].series[s].builds |-> ExpectedOfBuild(p, s, b)])

ExpectedOfProject(p) ==
    Concat([s \in DOMAIN tree[p].series |-> ExpectedOfSeries(p, s)])

ExpectedPosts == Concat([p \in DOMAIN tree |-> ExpectedOfProject(p)])

NumberOfBuilds ==
    SumSeq([p \in DOMAIN tree |->
              SumSeq([s \in DOMAIN tree[p].series |-> Len(tree[p].series[s].builds)])])

\* C1: in a pass over a tree whose inputs are all valid, every series is
\* published once, then each of its builds and, after the build, its sample
\* with the same ids; the pass runs to completion with one sample per build
\* directory.
C1_ValidPassPublishesAll ==
    (ValidTree /\ Finished) =>
        /\ pc = "done"
        /\ PostKeys(trace) = ExpectedPosts
        /\ Cardinality({i \in DOMAIN Posts(trace) :
                           Endpoint(Posts(trace)[i]) = "/apis/addSample"})
             = NumberOfBuilds

\* The reference pass: main() run to its end with every response a success.
RECURSIVE RunOk(_)
RunOk(s) == IF s.pc \in {"done", "failed"} THEN s ELSE RunOk(MainStep(s, 200))

\* C3: a non-success response is only logged, never raised, never retried:
\* at every moment the requests sent are the first requests of the pass in
\* which every response is a success, and a finished pass has sent exactly
\* that pass's requests and ended as it ends.
C3_ResponseStatusChangesNothing ==
    LET ref == RunOk(StartOfMain)
    IN  /\ IsPrefix(Posts(trace), Posts(ref.trace))
        /\ Len(Events(trace, "log")) = Len(Posts(trace))
        /\ Finished =>
            /\ Posts(trace) = Posts(ref.trace)
            /\ pc = ref.pc
            /\ error = ref.error

\* C3's case: a request was answered 500 and the pass went on to the build
\* loop and reached its next publish call.
C3_Witness ==
    /\ pc = "publish_build"
    /\ \E i \in DOMAIN trace : trace[i].op = "log" /\ trace[i].text[2] = 500

Cursor == <<pi, si, bi>>

LexLess(a, b) ==
    \/ a[1] < b[1]
    \/ a[1] = b[1] /\ a[2] < b[2]
    \/ a[1] = b[1] /\ a[2] = b[2] /\ a[3] < b[3]

AllSeries == {<<p, s>> \in (DOMAIN tree) \X (1..MaxDirs) : s \in DOMAIN tree[p].series}

AllBuilds ==
    {<<p, s, b>> \in (DOMAIN tree) \X (1..MaxDirs) \X (1..MaxDirs) :
        s \in DOMAIN tree[p].series /\ b \in DOMAIN tree[p].series[s].builds}

AtExistingSeries == <<pi, si>> \in AllSeries

\* main() ended in the lookup of the series' configuration.
FailedAtLoad == pc = "failed" /\ AtExistingSeries /\ glob(Series(State)) = <<>>

\* main() has looked for the configuration of series <<p, s>>.
SeriesReached(p, s) ==
    \/ LexLess(<<p, s, 1>>, <<pi, si, 1>>)
    \/ /\ <<p, s>> = <<pi, si>>
       /\ pc \in {"publish_series", "next_build", "parse_build", "publish_build",
                  "read_csv", "publish_sample", "failed"}

\* main() has parsed the name of build directory <<p, s, b>>.
BuildReached(p, s, b) ==
    \/ LexLess(<<p, s, b>>, Cursor)
    \/ /\ <<p, s, b>> = Cursor
       /\ \/ pc \in {"publish_build", "read_csv", "publish_sample"}
          \/ pc = "failed" /\ ~FailedAtLoad

PostsTo(endpoint) ==
    SelectSeq(Posts(trace), LAMBDA e : Endpoint(e) = endpoint)

\* C4: a series without any */hydra_config.yaml ends the run where it is
\* reached, with no request for that series, and nothing happens afterwards.
C4_MissingConfigIsFatal ==
    \A x \in AllSeries :
        (SeriesReached(x[1], x[2]) /\ glob(tree[x[1]].series[x[2]]) = <<>>) =>
            /\ pc = "failed" /\ error = "IndexError"
            /\ <<pi, si>> = x
            /\ \A i \in DOMAIN Posts(trace) :
                LET k == PostKey(Posts(trace)[i])
                IN  k[1] \in {"series", "sample"} =>
                        <<k[2], k[3]>> # <<tree[x[1]].name, tree[x[1]].series[x[2]].name>>
            /\ Len(PostsTo("/apis/addSerie"))
                 <= Cardinality({y \in AllSeries : LexLess(<<y[1], y[2], 1>>, <<x[1], x[2], 1>>)})
            /\ ~ENABLED Next

\* C4's case: the run ended at a series that has build directories and no
\* configuration in any of them.
C4_Witness ==
    /\ pc = "failed" /\ error = "IndexError"
    /\ AtExistingSeries
    /\ glob(Series(State)) = <<>>
    /\ Series(State).builds # <<>>

BuildsBefore(x) == {y \in AllBuilds : LexLess(y, x)}

\* The end of the run at a build directory x whose name is not accepted: the run
\* ends there with the parsing error, no build or sample is published for
\* it, and nothing is processed afterwards.
EndsWithParsingErrorAt(x) ==
    /\ pc = "failed" /\ error = "ValueError"
    /\ Cursor = x
    /\ Len(PostsTo("/apis/addBuild")) <= Cardinality(BuildsBefore(x))
    /\ Len(PostsTo("/apis/addSample")) <= Cardinality(BuildsBefore(x))
    /\ ~ENABLED Next

NameOf(x) == tree[x[1]].series[x[2]].builds[x[3]].name

\* C5 as stated: a build directory whose name does not have the shape
\* YYYYMMDD-HHMMSS ends the run with a timestamp parsing error when it is
\* reached.
C5_Original ==
    \A x \in AllBuilds :
        (BuildReached(x[1], x[2], x[3]) /\ ~NamedAsPattern(NameOf(x))) =>
            EndsWithParsingErrorAt(x)

\* C5 as amended: a build directory whose name strptime does not accept with
\* "%Y%m%d-%H%M%S" (which accepts fields that are not zero-padded) ends the
\* run with ValueError when it is reached: no build or sample is published
\* for it and no further build, series or project is processed.
C5_RejectedNameIsFatal ==
    \A x \in AllBuilds :
        (BuildReached(x[1], x[2], x[3]) /\ ~strptime(NameOf(x)).ok) =>
            EndsWithParsingErrorAt(x)

\* C5's case: the run ended at a rejected name with a further build directory
\* in the same series.
C5_Witness ==
    /\ pc = "failed" /\ error = "ValueError"
    /\ Cursor \in AllBuilds
    /\ ~strptime(NameOf(Cursor)).ok
    /\ bi < Len(Series(State).builds)

CsvErrors == {"FileNotFoundError", "EmptyDataError", "IndexError", "KeyError"}

\* C6: a build whose CSV is missing, has no row or lacks the latency column
\* ends the run at that build with the error of reading it, after the build
\* itself was published and with no sample published for it.
C6_CsvErrorIsFatalAtThatBuild ==
    (/\ pc = "failed" /\ ~FailedAtLoad
     /\ Cursor \in AllBuilds
     /\ strptime(NameOf(Cursor)).ok
     /\ BadCsvFile(Build(State).csv)) =>
        /\ error \in CsvErrors
        /\ \E i \in DOMAIN Posts(trace) :
            PostKey(Posts(trace)[i]) = <<"build", Project(State).name, build_id[1]>>
        /\ \A i \in DOMAIN Posts(trace) :
            PostKey(Posts(trace)[i])[1] = "sample" =>
                PostKey(Posts(trace)[i])
                    # <<"sample", Project(State).name, Series(State).name, build_id[1]>>

SharedBuildName(p) ==
    \E s1, s2 \in DOMAIN tree[p].series :
        /\ s1 # s2
        /\ \E b1 \in DOMAIN tree[p].series[s1].builds,
              b2 \in DOMAIN tree[p].series[s2].builds :
                tree[p].series[s1].builds[b1].name = tree[p].series[s2].builds[b2].name

C8_SharedBuildIdIsPublished ==
    (Finished /\ ValidTree) =>
        \A p \in DOMAIN tree : \A s1, s2 \in DOMAIN tree[p].series :
            \A b1 \in DOMAIN tree[p].series[s1].builds,
               b2 \in DOMAIN tree[p].series[s2].builds :
                (s1 # s2 /\ NameOf(<<p, s1, b1>>) = NameOf(<<p, s2, b2>>)) =>
                    \E id \in {BuildIdOf(p, s1, b1)} :
                        LET keys == {PostKey(Posts(trace)[i]) : i \in DOMAIN Posts(trace)}
                        IN  /\ <<"build", tree[p].name, id>> \in keys
                            /\ <<"sample", tree[p].name, tree[p].series[s1].name, id>> \in keys
                            /\ <<"sample", tree[p].name, tree[p].series[s2].name, id>> \in keys

\* The arguments call c ran with, the events it produced, and its payload as
\* it was printed or sent.
Args(c) == c.kwargs @@ Defaults[c.fn]

Span(c) == SubSeq(trace, c.first, c.last)

DataOf(e) == IF e.op = "print" THEN e.text[2] ELSE e.data

IndexOf(span, op) == CHOOSE i \in DOMAIN span : span[i].op = op

\* C2: with dry_run set, none of the three operations sends a request,
\* whatever the payload and verbose, and each prints its payload once.
C2_DryRunSendsNothing ==
    \A n \in DOMAIN calls :
        Args(calls[n]).dry_run =>
            /\ calls[n].raised = "none"
            /\ Posts(Span(calls[n])) = <<>>
            /\ Len(Events(Span(calls[n]), "print")) = 1
            /\ Span(calls[n])[1].text[1] = "API request payload: "
            /\ Span(calls[n])[1].text[2].json.projectId = calls[n].kwargs.project_id

\* C2's case: two different operations were called with dry_run set, one
\* with verbose set and one without, and each printed.
C2_Witness ==
    \E n1, n2 \in DOMAIN calls :
        /\ calls[n1].fn # calls[n2].fn
        /\ Args(calls[n1]).dry_run /\ Args(calls[n1]).verbose
        /\ Args(calls[n2]).dry_run /\ ~Args(calls[n2]).verbose
        /\ Len(Span(calls[n1])) = 1 /\ Len(Span(calls[n2])) = 1

PayloadKeysOfSeries == {"projectId", "serieId", "analyse", "override"}

SeriesCalls == {n \in DOMAIN calls : calls[n].fn = "add_new_optimum_series"}

SentPayload(n) == DataOf(Span(calls[n])[1]).json

SameButDescription(n1, n2) ==
    \A k \in (DOMAIN Args(calls[n1])) \ {"series_description"} :
        Args(calls[n1])[k] = Args(calls[n2])[k]

\* C9: a series published without a description has no description key in
\* its payload; with one, the key has exactly that value; the other keys are
\* the same in both cases.
C9_DescriptionKeyOnlyWhenGiven ==
    \A n \in SeriesCalls :
        LET description == Args(calls[n]).series_description
        IN  /\ description = <<>> => DOMAIN SentPayload(n) = PayloadKeysOfSeries
            /\ description # <<>> =>
                /\ DOMAIN SentPayload(n) = PayloadKeysOfSeries \cup {"description"}
                /\ SentPayload(n).description = description[1]
            /\ \A n2 \in SeriesCalls :
                SameButDescription(n, n2) =>
                    \A k \in PayloadKeysOfSeries : SentPayload(n)[k] = SentPayload(n2)[k]

\* C9's case: two series calls that differ in the description only, one
\* without and one with.
C9_Witness ==
    \E n1, n2 \in SeriesCalls :
        /\ SameButDescription(n1, n2)
        /\ Args(calls[n1]).series_description = <<>>
        /\ Args(calls[n2]).series_description # <<>>
        /\ "series_description" \notin DOMAIN calls[n1].kwargs

\* C10: the payload is printed exactly when dry_run or verbose is set, before
\* the request is sent, and the request is sent exactly when dry_run is not
\* set, whatever verbose is.
C10_PrintAndSendAreIndependent ==
    \A n \in DOMAIN calls :
        LET span == Span(calls[n])
            a == Args(calls[n])
        IN  /\ Len(Events(span, "print")) = (IF a.dry_run \/ a.verbose THEN 1 ELSE 0)
            /\ Len(Posts(span)) = (IF a.dry_run THEN 0 ELSE 1)
            /\ (Events(span, "print") # <<>> /\ Posts(span) # <<>>) =>
                    IndexOf(span, "print") < IndexOf(span, "post")

\* C10's case: a call with verbose set and dry_run not set printed, then sent.
C10_Witness ==
    \E n \in DOMAIN calls :
        /\ Args(calls[n]).verbose /\ ~Args(calls[n]).dry_run
        /\ Span(calls[n])[1].op = "print"
        /\ Span(calls[n])[2].op = "post"

====
